---- MODULE Spec2Model ----
(***************************************************************************)
(* A model of the getopt crate's Parser (src/src/parser.rs): the exploded  *)
(* argument vector, the option map built from the optstring, and the       *)
(* cursor (index, point) driven by next(), set_index() and incr_index().   *)
(*                                                                         *)
(* Characters are one-character strings; a token or an optstring is a      *)
(* sequence of characters.  index and point are 0-based as in the source;  *)
(* At() converts to TLA+'s 1-based sequences.                              *)
(***************************************************************************)
EXTENDS Integers, Sequences, FiniteSets, TLC

(***************************************************************************)
(* Bounds of the model.                                                    *)
(***************************************************************************)
\* number of tokens after args[0] in a generated argument vector
MaxArgs == 2
\* number of characters, over all its tokens, of a generated argument vector
MaxChars == 4
\* number of characters of a generated optstring
MaxOptLen == 2

\* characters the generated tokens are made of; '-' is an option character too
TokChars == {"-", "a"}
\* characters the generated optstrings are made of
OptChars == {"a", "-", ":"}
\* args[0] of a generated vector, which a scan started by new() skips
ProgNames == {<<"x">>}

\* all sequences over S of length at most n
SeqsUpTo(S, n) == UNION {[1..k -> S] : k \in 0..n}

RECURSIVE TotalLen(_)
\* the number of characters of the tokens of v
TotalLen(v) == IF v = << >> THEN 0 ELSE Len(Head(v)) + TotalLen(Tail(v))

Tokens == SeqsUpTo(TokChars, MaxChars)
OptStrings == SeqsUpTo(OptChars, MaxOptLen)
\* the empty vector, and every vector of a program name and up to MaxArgs
\* tokens of up to MaxChars characters in all
ArgVectors ==
    {<< >>} \cup
    {<<p>> \o t : p \in ProgNames,
                  t \in {v \in SeqsUpTo(Tokens, MaxArgs) : TotalLen(v) <= MaxChars}}

\* the vectors and optstrings of the crate's own tests and doc examples
TestCases ==
    { [args |-> <<<<"x">>, <<"-","a","b","c">>, <<"-","d">>, <<"f","o","o">>,
                  <<"-","e">>, <<"b","a","r">>>>,
       optstring |-> <<"a","b",":","d",":","e">>],
      [args |-> <<<<"x">>, <<"-","a","b","c">>, <<"f","o","o">>>>,
       optstring |-> <<"a","b",":","c">>],
      [args |-> <<<<"x">>, <<"-","-">>, <<"-","a">>, <<"f","o","o">>>>,
       optstring |-> <<"a">>],
      [args |-> <<<<"x">>, <<"-">>, <<"-","a">>, <<"f","o","o">>>>,
       optstring |-> <<"a">>],
      [args |-> <<<<"x">>, <<"-","z">>, <<"-","a","b","c">>>>,
       optstring |-> <<"a","b",":","d",":","e">>] }

\* further inputs of new(): optstrings with a repeated character or a ':' not
\* after an option character, a token with ':', and vectors whose args[0]
\* looks like an option
EdgeCases ==
    { [args |-> <<<<"x">>, <<"-","a">>, <<"a">>>>, optstring |-> <<"a",":","a">>],
      [args |-> <<<<"x">>, <<"-","a">>, <<"a">>>>, optstring |-> <<"a","a",":">>],
      [args |-> <<<<"x">>, <<"-",":">>>>, optstring |-> <<":">>],
      [args |-> <<<<"x">>, <<"-",":">>>>, optstring |-> <<"a",":">>],
      [args |-> <<<<"x">>, <<"-","a",":">>>>, optstring |-> <<"a",":",":">>],
      [args |-> <<<<"x">>, <<"-","b">>>>, optstring |-> <<"a">>],
      [args |-> <<<<"-","a">>>>, optstring |-> <<"a">>],
      [args |-> <<<<"-","a">>, <<"x">>>>, optstring |-> <<"a">>] }

VARIABLES
    optstring,  \* the optstring given to new()
    opts,       \* Parser.opts: option character -> takes an argument
    args,       \* Parser.args: the exploded argument vector
    index,      \* Parser.index
    point,      \* Parser.point
    last,       \* the last call: its name, whether every call since new() was
                \* next() (fresh), the index the cursor was last positioned at
                \* by new(), set_index() or incr_index() (start) and, for
                \* next(), the cursor and done before it and its result
    done,       \* next() has returned None since the last (re)positioning
    outs        \* the results of next() since the last (re)positioning, up to
                \* the first None

vars == <<optstring, opts, args, index, point, last, done, outs>>

(***************************************************************************)
(* Values returned by next(): Option<Result<Opt>>.                         *)
(* arg is an Option<String>: << >> is None, <<v>> is Some(v).              *)
(***************************************************************************)
None == [tag |-> "None", c |-> "", arg |-> << >>]
Opt(c, a) == [tag |-> "Opt", c |-> c, arg |-> a]
UnknownOption(c) == [tag |-> "UnknownOption", c |-> c, arg |-> << >>]
MissingArgument(c) == [tag |-> "MissingArgument", c |-> c, arg |-> << >>]
\* an index out of bounds at args[index][point]
Panic == [tag |-> "Panic", c |-> "", arg |-> << >>]
\* no call of next() yet
NoCall == [tag |-> "NoCall", c |-> "", arg |-> << >>]

(***************************************************************************)
(* impl fmt::Display for Error.  A text is a sequence of pieces.           *)
(***************************************************************************)
\* {:?} of a char: the character between single quotes, a single quote or a
\* backslash escaped
escape_debug(c) ==
    <<"'">> \o (IF c \in {"'", "\\"} THEN <<"\\", c>> ELSE <<c>>) \o <<"'">>

\* to_string with the two messages exchanged
to_string_swapped(e) ==
    IF e.tag = "MissingArgument"
    THEN <<"unknown option -- ">> \o escape_debug(e.c)
    ELSE <<"option requires an argument -- ">> \o escape_debug(e.c)

to_string(e) ==
    IF e.tag = "MissingArgument"
    THEN <<"option requires an argument -- ">> \o escape_debug(e.c)
    ELSE <<"unknown option -- ">> \o escape_debug(e.c)

\* s[i] of the source, 0-based
At(s, i) == s[i + 1]
\* v.clone().split_off(at): the elements from at to the end
split_off(s, at) == SubSeq(s, at + 1, Len(s))

(***************************************************************************)
(* Parser::new: the option map.                                            *)
(***************************************************************************)
\* insert keeping the value of a key that is already there
insert_keepFirst(m, k, v) ==
    [x \in (DOMAIN m) \cup {k} |-> IF x \in DOMAIN m THEN m[x] ELSE v]

insert(m, k, v) == [x \in (DOMAIN m) \cup {k} |-> IF x = k THEN v ELSE m[x]]

RECURSIVE new_loop(_, _, _)
new_loop(s, i, m) ==
    IF i < Len(s)
    THEN LET j == i + 1 IN
         IF j < Len(s) /\ At(s, j) = ":"
         THEN new_loop(s, i + 2, insert(m, At(s, i), TRUE))
         ELSE new_loop(s, i + 1, insert(m, At(s, i), FALSE))
    ELSE m

new(s) == new_loop(s, 0, << >>)

(***************************************************************************)
(* The cursor operations.  A cursor is [index, point].                     *)
(***************************************************************************)
Cursor(i, p) == [index |-> i, point |-> p]

\* set_index leaving point as it is
set_index_cur_keepPoint(cur, value) == Cursor(value, cur.point)

set_index_cur(cur, value) == Cursor(value, 0)

\* incr_index leaving point as it is
incr_index_cur_keepPoint(cur) == Cursor(cur.index + 1, cur.point)

incr_index_cur(cur) == Cursor(cur.index + 1, 0)

(***************************************************************************)
(* Parser::next.                                                           *)
(***************************************************************************)
\* NotAnOption without the test of the first character
NotAnOption_anyPrefix(i) ==
    \/ i >= Len(args)
    \/ Len(At(args, i)) = 0
    \/ Len(At(args, i)) = 1

\* the token boundary check: no option at args[i]
NotAnOption(i) ==
    \/ i >= Len(args)
    \/ Len(At(args, i)) = 0
    \/ At(At(args, i), 0) # "-"
    \/ Len(At(args, i)) = 1

\* IsTerminator without the test of the length
IsTerminator_anyLength(i) == At(At(args, i), 1) = "-"

\* IsTerminator only for the argument right after the program name
IsTerminator_firstOnly(i) ==
    i = 1 /\ At(At(args, i), 1) = "-" /\ Len(At(args, i)) = 2

\* args[i] is "--"
IsTerminator(i) == At(At(args, i), 1) = "-" /\ Len(At(args, i)) = 2

\* unknown_option leaving the token whatever the point
unknown_option_alwaysIncr(opt, cur) ==
    [cur |-> incr_index_cur(cur), ret |-> UnknownOption(opt)]

\* unknown_option never leaving the token
unknown_option_neverIncr(opt, cur) ==
    [cur |-> cur, ret |-> UnknownOption(opt)]

\* opt is not in opts; cur is the cursor after opt
unknown_option(opt, cur) ==
    [cur |-> IF cur.point >= Len(At(args, cur.index))
             THEN incr_index_cur(cur) ELSE cur,
     ret |-> UnknownOption(opt)]

\* no_argument leaving the token whatever the point
no_argument_alwaysIncr(opt, cur) ==
    [cur |-> incr_index_cur(cur), ret |-> Opt(opt, << >>)]

\* no_argument never leaving the token
no_argument_neverIncr(opt, cur) ==
    [cur |-> cur, ret |-> Opt(opt, << >>)]

\* no_argument leaving the token one character early
no_argument_earlyIncr(opt, cur) ==
    [cur |-> IF cur.point + 1 >= Len(At(args, cur.index))
             THEN incr_index_cur(cur) ELSE cur,
     ret |-> Opt(opt, << >>)]

\* opt takes no argument
no_argument(opt, cur) ==
    [cur |-> IF cur.point >= Len(At(args, cur.index))
             THEN incr_index_cur(cur) ELSE cur,
     ret |-> Opt(opt, << >>)]

\* with_argument never looking at the following token
with_argument_noDetached(opt, cur) ==
    [cur |-> incr_index_cur(cur),
     ret |-> Opt(opt, <<split_off(At(args, cur.index), cur.point)>>)]

\* with_argument not moving past a detached value
with_argument_noSkip(opt, cur) ==
    IF cur.point >= Len(At(args, cur.index))
    THEN LET c1 == incr_index_cur(cur) IN
         IF c1.index >= Len(args)
         THEN [cur |-> c1, ret |-> MissingArgument(opt)]
         ELSE [cur |-> c1, ret |-> Opt(opt, <<At(args, c1.index)>>)]
    ELSE [cur |-> incr_index_cur(cur),
          ret |-> Opt(opt, <<split_off(At(args, cur.index), cur.point)>>)]

\* with_argument splitting an attached value one character early
with_argument_offByOne(opt, cur) ==
    IF cur.point >= Len(At(args, cur.index))
    THEN LET c1 == incr_index_cur(cur) IN
         IF c1.index >= Len(args)
         THEN [cur |-> c1, ret |-> MissingArgument(opt)]
         ELSE [cur |-> incr_index_cur(c1),
               ret |-> Opt(opt, <<At(args, c1.index)>>)]
    ELSE [cur |-> incr_index_cur(cur),
          ret |-> Opt(opt, <<split_off(At(args, cur.index), cur.point - 1)>>)]

\* with_argument reporting a missing argument before leaving the token
with_argument_missingKeepsIndex(opt, cur) ==
    IF cur.point >= Len(At(args, cur.index))
    THEN LET c1 == incr_index_cur(cur) IN
         IF c1.index >= Len(args)
         THEN [cur |-> cur, ret |-> MissingArgument(opt)]
         ELSE [cur |-> incr_index_cur(c1),
               ret |-> Opt(opt, <<At(args, c1.index)>>)]
    ELSE [cur |-> incr_index_cur(cur),
          ret |-> Opt(opt, <<split_off(At(args, cur.index), cur.point)>>)]

\* with_argument moving past the end of the vector when the argument is missing
with_argument_missingSkips(opt, cur) ==
    IF cur.point >= Len(At(args, cur.index))
    THEN LET c1 == incr_index_cur(cur) IN
         IF c1.index >= Len(args)
         THEN [cur |-> incr_index_cur(c1), ret |-> MissingArgument(opt)]
         ELSE [cur |-> incr_index_cur(c1),
               ret |-> Opt(opt, <<At(args, c1.index)>>)]
    ELSE [cur |-> incr_index_cur(cur),
          ret |-> Opt(opt, <<split_off(At(args, cur.index), cur.point)>>)]

\* opt takes an argument
with_argument(opt, cur) ==
    IF cur.point >= Len(At(args, cur.index))
    THEN LET c1 == incr_index_cur(cur) IN
         IF c1.index >= Len(args)
         THEN [cur |-> c1, ret |-> MissingArgument(opt)]
         ELSE [cur |-> incr_index_cur(c1),
               ret |-> Opt(opt, <<At(args, c1.index)>>)]
    ELSE [cur |-> incr_index_cur(cur),
          ret |-> Opt(opt, <<split_off(At(args, cur.index), cur.point)>>)]

\* dispatch taking the flag of the option map the wrong way round
dispatch_flagSwapped(cur) ==
    IF cur.index >= Len(args) \/ cur.point >= Len(At(args, cur.index))
    THEN [cur |-> cur, ret |-> Panic]
    ELSE LET opt == At(At(args, cur.index), cur.point)
             c1 == Cursor(cur.index, cur.point + 1)
         IN  IF opt \notin DOMAIN opts THEN unknown_option(opt, c1)
             ELSE IF opts[opt] THEN no_argument(opt, c1)
             ELSE with_argument(opt, c1)

\* dispatch not moving point past the character it reads
dispatch_noAdvance(cur) ==
    IF cur.index >= Len(args) \/ cur.point >= Len(At(args, cur.index))
    THEN [cur |-> cur, ret |-> Panic]
    ELSE LET opt == At(At(args, cur.index), cur.point)
         IN  IF opt \notin DOMAIN opts THEN unknown_option(opt, cur)
             ELSE IF opts[opt] THEN with_argument(opt, cur)
             ELSE no_argument(opt, cur)

\* the character at the cursor is read and looked up
dispatch(cur) ==
    IF cur.index >= Len(args) \/ cur.point >= Len(At(args, cur.index))
    THEN [cur |-> cur, ret |-> Panic]
    ELSE LET opt == At(At(args, cur.index), cur.point)
             c1 == Cursor(cur.index, cur.point + 1)
         IN  IF opt \notin DOMAIN opts THEN unknown_option(opt, c1)
             ELSE IF opts[opt] THEN with_argument(opt, c1)
             ELSE no_argument(opt, c1)

\* parser_next returning None at "--" without moving past it
parser_next_keepTerminator(cur) ==
    IF cur.point = 0
    THEN IF NotAnOption(cur.index) \/ IsTerminator(cur.index)
         THEN [cur |-> cur, ret |-> None]
         ELSE dispatch(Cursor(cur.index, cur.point + 1))
    ELSE dispatch(cur)

parser_next(cur) ==
    IF cur.point = 0
    THEN IF NotAnOption(cur.index) THEN [cur |-> cur, ret |-> None]
         ELSE IF IsTerminator(cur.index)
              THEN [cur |-> incr_index_cur(cur), ret |-> None]
              ELSE dispatch(Cursor(cur.index, cur.point + 1))
    ELSE dispatch(cur)

(***************************************************************************)
(* The state machine.                                                      *)
(***************************************************************************)
\* the record of a call of next() that returns ret
Call(ret) ==
    [op |-> "next", fresh |-> last.fresh, start |-> last.start,
     index |-> index, point |-> point, done |-> done, ret |-> ret]
\* the record of a call that is to position the cursor at index i; for
\* set_index, p is the point before the call
Moved(op, i, p) ==
    [op |-> op, fresh |-> (op = "new"), start |-> i,
     index |-> i, point |-> p, done |-> FALSE, ret |-> NoCall]

\* new() starting the scan at args[0]
Init_indexZero ==
    /\ \E t \in [args : ArgVectors, optstring : OptStrings]
                 \cup TestCases \cup EdgeCases :
          /\ args = t.args
          /\ optstring = t.optstring
    /\ opts = new(optstring)
    /\ index = 0
    /\ point = 0
    /\ last = Moved("new", 0, 0)
    /\ done = FALSE
    /\ outs = << >>

Init ==
    /\ \E t \in [args : ArgVectors, optstring : OptStrings]
                 \cup TestCases \cup EdgeCases :
          /\ args = t.args
          /\ optstring = t.optstring
    /\ opts = new(optstring)
    /\ index = 1
    /\ point = 0
    /\ last = Moved("new", 1, 0)
    /\ done = FALSE
    /\ outs = << >>

\* the values set_index is called with, and the cap of incr_index
MaxIndex == Len(args) + 1

\* next() splitting an attached value off args[index] itself, not off a clone
next_splitInPlace ==
    /\ last.ret.tag # "Panic"
    /\ LET r == parser_next(Cursor(index, point))
           p == IF point = 0 THEN 2 ELSE point + 1
       IN
         /\ index' = r.cur.index
         /\ point' = r.cur.point
         /\ last' = Call(r.ret)
         /\ done' = (done \/ r.ret = None)
         /\ outs' = IF ~done THEN Append(outs, r.ret) ELSE outs
         /\ args' = IF /\ r.ret.tag = "Opt" /\ r.ret.arg # << >>
                       /\ p < Len(At(args, index))
                    THEN [args EXCEPT ![index + 1] = SubSeq(@, 1, p)]
                    ELSE args
    /\ UNCHANGED <<optstring, opts>>

\* next() reads opts and args and writes index and point only: the attached
\* value is split off a clone of args[index]
next ==
    /\ last.ret.tag # "Panic"
    /\ LET r == parser_next(Cursor(index, point)) IN
         /\ index' = r.cur.index
         /\ point' = r.cur.point
         /\ last' = Call(r.ret)
         /\ done' = (done \/ r.ret = None)
         /\ outs' = IF ~done THEN Append(outs, r.ret) ELSE outs
    /\ UNCHANGED <<optstring, opts, args>>

set_index ==
    /\ last.ret.tag # "Panic"
    /\ \E value \in 0..MaxIndex :
         LET c == set_index_cur(Cursor(index, point), value) IN
         /\ index' = c.index
         /\ point' = c.point
         /\ last' = Moved("set_index", value, point)
    /\ done' = FALSE
    /\ outs' = << >>
    /\ UNCHANGED <<optstring, opts, args>>

incr_index ==
    /\ last.ret.tag # "Panic"
    /\ index < MaxIndex
    /\ LET c == incr_index_cur(Cursor(index, point)) IN
         /\ index' = c.index
         /\ point' = c.point
         /\ last' = Moved("incr_index", index + 1, 0)
    /\ done' = FALSE
    /\ outs' = << >>
    /\ UNCHANGED <<optstring, opts, args>>

Next == next \/ set_index \/ incr_index

Spec == Init /\ [][Next]_vars

(***************************************************************************)
(* A scan: the caller may call set_index() once before the first next(),   *)
(* and then calls next() again and again.                                  *)
(***************************************************************************)
first_set_index == last.op = "new" /\ set_index

ScanNext == next \/ first_set_index

ScanSpec == Init /\ [][ScanNext]_vars /\ WF_vars(next)

(***************************************************************************)
(* What the properties below speak of: the last call of next(), the token  *)
(* its cursor was in, and the character it dispatched.                     *)
(***************************************************************************)
\* the token the cursor was in before the last call
Tok == At(args, last.index)
\* the last call was next() and started at a token boundary
AtBoundary == last.op = "next" /\ last.point = 0
\* the offset of the character the last call dispatched
DispPoint == IF last.point = 0 THEN 1 ELSE last.point
\* the last call was next() and dispatched a character of Tok
Dispatches ==
    /\ last.op = "next"
    /\ last.index < Len(args)
    /\ IF last.point = 0
       THEN Len(Tok) >= 2 /\ Tok[1] = "-" /\ Tok # <<"-", "-">>
       ELSE last.point < Len(Tok)
\* the character the last call dispatched, and whether it is the last of Tok
DispChar == Tok[DispPoint + 1]
DispLast == DispPoint + 1 = Len(Tok)
\* the dispatched character is marked argument-taking by the option spec
TakesArg == DispChar \in DOMAIN opts /\ opts[DispChar]
\* c occurs in the sequence s
Occurs(c, s) == \E k \in 1..Len(s) : s[k] = c

\* C1: a next() called at a token boundary whose index is past the end of
\* the vector, or whose token is empty, does not start with '-' or is "-",
\* returns None and leaves index and point as they were.
C1_NoOptionLeavesCursor ==
    (AtBoundary /\ (\/ last.index >= Len(args)
                    \/ Tok = << >>
                    \/ Tok[1] # "-"
                    \/ Tok = <<"-">>))
        => (last.ret = None /\ index = last.index /\ point = last.point)

C1_Witness ==
    /\ AtBoundary /\ last.index < Len(args) /\ Tok = <<"a", "-">>
    /\ last.ret = None /\ index = last.index

\* C2: a next() called at a token boundary on the token "--" returns None,
\* advances index by exactly one and leaves point 0, so that index is at the
\* token after the terminator.
C2_TerminatorAdvancesByOne ==
    (AtBoundary /\ last.index < Len(args) /\ Tok = <<"-", "-">>)
        => (last.ret = None /\ index = last.index + 1 /\ point = 0)

C2_Witness ==
    /\ AtBoundary /\ last.index < Len(args) /\ Tok = <<"-", "-">>
    /\ last.ret = None
    /\ index < Len(args) /\ At(args, index) = <<"-", "a">>

\* C3: once next() has returned None, a later next() with no set_index or
\* incr_index in between returns None and changes neither index nor point.
C3_EndOfOptionsPermanent ==
    (last.op = "next" /\ last.done)
        => (last.ret = None /\ index = last.index /\ point = last.point)

\* C4: a dispatched argument-taking character that is the last of its token,
\* with a token after it, yields Opt(c, Some(the whole following token));
\* index advances by two and point is 0.
C4_DetachedValue ==
    (Dispatches /\ TakesArg /\ DispLast /\ last.index + 1 < Len(args))
        => /\ last.ret = Opt(DispChar, <<At(args, last.index + 1)>>)
           /\ index = last.index + 2
           /\ point = 0

C4_Witness ==
    /\ Dispatches /\ TakesArg /\ DispLast /\ last.index + 1 < Len(args)
    /\ At(args, last.index + 1) = <<"-", "-">>
    /\ last.ret.tag = "Opt" /\ last.ret.arg = << <<"-", "-">> >>

\* C5: a dispatched argument-taking character with characters after it in
\* its token yields Opt(c, Some(the rest of the token)); index advances by
\* one and point is 0, so the rest is never dispatched and the following
\* token is not consumed ("-abc" with "ab:c": ('a',None), ('b',"c"), None).
C5_AttachedValue ==
    /\ (Dispatches /\ TakesArg /\ ~DispLast)
          => /\ last.ret = Opt(DispChar, <<SubSeq(Tok, DispPoint + 2, Len(Tok))>>)
             /\ index = last.index + 1
             /\ point = 0
    /\ (/\ args = <<<<"x">>, <<"-","a","b","c">>, <<"f","o","o">>>>
        /\ optstring = <<"a","b",":","c">>
        /\ last.fresh /\ done)
          => outs = <<Opt("a", << >>), Opt("b", << <<"c">> >>), None>>

C5_Witness ==
    /\ Dispatches /\ TakesArg /\ ~DispLast
    /\ last.ret.tag = "Opt"
    /\ \E k \in 1..Len(last.ret.arg[1]) : last.ret.arg[1][k] \in DOMAIN opts
    /\ last.index + 1 < Len(args)

\* C6: a dispatched argument-taking character that is the last character of
\* the last token yields MissingArgument(c) with index at the length of the
\* vector and point 0, and the next() after it returns None.
C6_MissingArgument ==
    /\ [](( Dispatches /\ TakesArg /\ DispLast /\ last.index + 1 = Len(args))
            => /\ last.ret = MissingArgument(DispChar)
               /\ index = Len(args)
               /\ point = 0)
    /\ [][(last.ret.tag = "MissingArgument" /\ last'.op = "next")
            => (last'.ret = None /\ index' = index /\ point' = point)]_vars

C6_Witness ==
    /\ last.op = "next" /\ last.ret = None /\ last.index = Len(args)
    /\ ~last.done
    /\ Len(outs) >= 2 /\ outs[Len(outs) - 1].tag = "MissingArgument"

\* C7: a dispatched character that is not in the option spec yields
\* UnknownOption(c); if it is the last character of its token index advances
\* by one and point is 0, otherwise index stays and point is the offset right
\* after the character.
C7_UnknownOption ==
    (Dispatches /\ (DispChar \notin DOMAIN opts \/ ~Occurs(DispChar, optstring)))
        => /\ last.ret = UnknownOption(DispChar)
           /\ IF DispLast
              THEN index = last.index + 1 /\ point = 0
              ELSE index = last.index /\ point = DispPoint + 1

C7_Witness ==
    /\ Dispatches /\ DispChar \notin DOMAIN opts /\ ~DispLast
    /\ last.point = 0
    /\ last.ret.tag = "UnknownOption" /\ index = last.index /\ point = 2

\* C8, as claimed: after next() returns an error point is 0 and index is
\* greater than the index of the token of the offending character.
C8_ErrorResumesAtNextToken ==
    (last.op = "next" /\ last.ret.tag \in {"UnknownOption", "MissingArgument"})
        => (point = 0 /\ index > last.index)

\* C8, amended: after next() returns an error the cursor is past the
\* offending character: after MissingArgument, and after UnknownOption of the
\* last character of a token, point is 0 and index is greater than the
\* token's index; after UnknownOption of any other character index is
\* unchanged and point is the offset of the character after it.
C8_ErrorAdvancesPastCulprit ==
    (last.op = "next" /\ last.ret.tag \in {"UnknownOption", "MissingArgument"})
        => /\ Dispatches
           /\ last.ret.c = DispChar
           /\ IF last.ret.tag = "MissingArgument" \/ DispLast
              THEN point = 0 /\ index > last.index
              ELSE index = last.index /\ point = DispPoint + 1 /\ point < Len(Tok)

C8_Witness ==
    /\ last.op = "next" /\ last.ret.tag = "UnknownOption"
    /\ index = last.index /\ point = 2 /\ Len(Tok) = 3

(***************************************************************************)
(* The option characters of an argument vector, token by token: what a     *)
(* scan from position 1 is to yield, and where it is to end.               *)
(***************************************************************************)
\* t is a bundle of option characters: "-" and at least one more character,
\* but not the terminator
IsBundle(t) == Len(t) >= 2 /\ t[1] = "-" /\ t # <<"-", "-">>
\* c is marked argument-taking
ArgTaking(c) == c \in DOMAIN opts /\ opts[c]

RECURSIVE OutcomesFrom(_), OutcomesOfBundle(_, _)
\* the outcomes of the option characters of args[i] from offset p on, then
\* those of the tokens after it
OutcomesOfBundle(i, p) ==
    LET t == At(args, i)
        c == At(t, p)
        rest == IF p + 1 = Len(t) THEN OutcomesFrom(i + 1)
                ELSE OutcomesOfBundle(i, p + 1)
    IN  IF c \notin DOMAIN opts THEN <<UnknownOption(c)>> \o rest
        ELSE IF ~opts[c] THEN <<Opt(c, << >>)>> \o rest
        ELSE IF p + 1 < Len(t)
             THEN <<Opt(c, <<SubSeq(t, p + 2, Len(t))>>)>> \o OutcomesFrom(i + 1)
        ELSE IF i + 1 < Len(args)
             THEN <<Opt(c, <<At(args, i + 1)>>)>> \o OutcomesFrom(i + 2)
        ELSE <<MissingArgument(c)>> \o OutcomesFrom(i + 1)
\* the outcomes of the leading option tokens from position i on, None last
OutcomesFrom(i) ==
    IF i < Len(args) /\ IsBundle(At(args, i))
    THEN OutcomesOfBundle(i, 1)
    ELSE <<None>>

\* the bundle t takes the token after it as a value: its last character is
\* argument-taking and no character before it is
TakesNextToken(t) ==
    /\ ArgTaking(t[Len(t)])
    /\ \A k \in 2..(Len(t) - 1) : ~ArgTaking(t[k])

RECURSIVE FirstOperand(_)
\* the position of the first operand at or after position i
FirstOperand(i) ==
    IF i >= Len(args) THEN i
    ELSE LET t == At(args, i) IN
         IF t = <<"-", "-">> THEN i + 1
         ELSE IF ~IsBundle(t) THEN i
         ELSE IF TakesNextToken(t) /\ i + 1 < Len(args) THEN FirstOperand(i + 2)
         ELSE FirstOperand(i + 1)

\* s is a prefix of t
IsPrefix(s, t) == Len(s) <= Len(t) /\ SubSeq(t, 1, Len(s)) = s

\* the last call is the first next() of the scan started by new() to return None
FirstNone == last.fresh /\ last.op = "next" /\ ~last.done /\ last.ret = None

\* the vector and optstring of the test "multiple"
MultipleArgs ==
    <<<<"x">>, <<"-","a","b","c">>, <<"-","d">>, <<"f","o","o">>,
      <<"-","e">>, <<"b","a","r">>>>
MultipleOptstring == <<"a","b",":","d",":","e">>

\* C9: the scan started by new() yields, in order, one outcome for each
\* option character of the leading option tokens and then None; for the
\* vector of the test "multiple" these are ('a',None), ('b',"c"),
\* ('d',"foo"), ('e',None), None, with index 5 at the end.
C9_OneOutcomePerOptionCharacter ==
    /\ last.fresh =>
          /\ IsPrefix(outs, OutcomesFrom(1))
          /\ done => outs = OutcomesFrom(1)
    /\ (FirstNone /\ args = MultipleArgs /\ optstring = MultipleOptstring) =>
          /\ outs = <<Opt("a", << >>), Opt("b", << <<"c">> >>),
                      Opt("d", << <<"f","o","o">> >>), Opt("e", << >>), None>>
          /\ index = 5

C9_Witness ==
    /\ FirstNone
    /\ Len(outs) >= 3
    /\ outs[1].c = outs[2].c /\ outs[1].tag = "Opt" /\ outs[2].tag = "Opt"
    /\ index = last.index

\* the token at index is an operand: it follows the terminator the last call
\* consumed, or it is empty, is "-" or does not start with '-'
OperandAtIndex ==
    /\ index < Len(args)
    /\ \/ index = last.index + 1 /\ Tok = <<"-", "-">>
       \/ /\ index = last.index
          /\ LET t == At(args, index) IN t = << >> \/ t = <<"-">> \/ t[1] # "-"

\* C10, as claimed: when next() first returns None in the scan started by
\* new(), the tokens before index were consumed as bundles, values or the
\* terminator, and index is the length of the vector or the position of
\* the first operand.
C10_IndexAtFirstOperand ==
    FirstNone =>
        /\ index = FirstOperand(1)
        /\ index = Len(args) \/ OperandAtIndex

\* C10, amended: as claimed, except that for an empty vector index stays at
\* its initial value 1, past the length 0.
C10_IndexAtFirstOperandOrOne ==
    FirstNone =>
        /\ index = FirstOperand(1)
        /\ \/ index = Len(args)
           \/ args = << >> /\ index = 1
           \/ OperandAtIndex

C10_Witness ==
    /\ FirstNone
    /\ OperandAtIndex
    /\ \E k \in 1..Len(outs), j \in 2..(index - 1) :
          /\ TakesNextToken(At(args, j - 1))
          /\ outs[k].tag = "Opt" /\ outs[k].arg = <<At(args, j)>>

\* C11: every Opt(c, v) that next() returns has c in the option spec, and v
\* is Some(...) exactly when the spec marks c as taking an argument.
C11_OptMatchesSpec ==
    (last.op = "next" /\ last.ret.tag = "Opt")
        => /\ last.ret.c \in DOMAIN opts
           /\ Occurs(last.ret.c, optstring)
           /\ (last.ret.arg # << >>) <=> opts[last.ret.c]
           /\ Len(last.ret.arg) <= 1

C11_Witness ==
    /\ last.op = "next" /\ last.ret.tag = "Opt"
    /\ last.ret.arg = << << >> >>
    /\ opts[last.ret.c]

\* C12: across next(), set_index() and incr_index(), whenever index after
\* the call differs from index before it, point is 0 after it.
C12_IndexChangeResetsPoint ==
    [][index' # index => point' = 0]_vars

C12_Witness ==
    /\ last.op = "next" /\ last.point > 0
    /\ index # last.index /\ point = 0

\* C13: next() never decreases index; it changes it by 0, 1 or 2, and by 2
\* only when an argument-taking option takes the whole following token.
C13_ForwardOnly ==
    last.op = "next" =>
        /\ index - last.index \in {0, 1, 2}
        /\ index = last.index + 2 =>
              /\ Dispatches /\ TakesArg /\ DispLast
              /\ last.index + 1 < Len(args)
              /\ last.ret = Opt(DispChar, <<At(args, last.index + 1)>>)

C13_Witness ==
    /\ last.op = "next" /\ index = last.index + 2
    /\ last.point > 0

\* C14: no call of next() indexes out of bounds, whatever calls of next(),
\* set_index(v) and incr_index() precede it: whenever point is not 0, index
\* is less than the length of the vector and 1 <= point < the length of the
\* token at index.
C14_NoPanic ==
    /\ last.ret.tag # "Panic"
    /\ point # 0 =>
          /\ index < Len(args)
          /\ 1 <= point
          /\ point < Len(At(args, index))

C14_Witness ==
    /\ last.op = "next" /\ ~last.fresh /\ last.start = last.index
    /\ point # 0
    /\ last.ret.tag = "UnknownOption"

RECURSIVE CharsFrom(_)
\* the number of characters of the tokens from position i on
CharsFrom(i) ==
    IF i >= Len(args) THEN 0 ELSE Len(At(args, i)) + CharsFrom(i + 1)
\* the number of characters from the cursor (i, p) on
Remaining(i, p) == CharsFrom(i) - p

\* C15: in a scan, every next() that returns an option or an error moves
\* the cursor (index, point) strictly forward in lexicographic order, past
\* at least one character; the outcomes before the first None are at most
\* as many as the characters of the tokens from the starting index on; and
\* next() eventually returns None.
C15_ScanIsFinite ==
    /\ []((last.op = "next" /\ last.ret # None) =>
            /\ \/ index > last.index
               \/ index = last.index /\ point > last.point
            /\ Remaining(last.index, last.point) > Remaining(index, point)
            /\ Remaining(index, point) >= 0)
    /\ [](Len(outs) - (IF done THEN 1 ELSE 0) <= CharsFrom(last.start))
    /\ <>done

C15_Witness ==
    /\ done /\ Len(outs) >= 4
    /\ last.op = "next" /\ ~last.done

RECURSIVE Visited(_, _)
\* the positions of s, from i on, that the left-to-right scan reads as
\* option characters: after a character followed by ':' it skips both
Visited(s, i) ==
    IF i >= Len(s) THEN {}
    ELSE {i} \cup Visited(s, IF i + 1 < Len(s) /\ At(s, i + 1) = ":"
                             THEN i + 2 ELSE i + 1)
\* the character at position i of s is immediately followed by ':'
Marked(s, i) == i + 1 < Len(s) /\ At(s, i + 1) = ":"
\* the last position of s at which the scan reads c
LastVisit(s, c) ==
    CHOOSE i \in Visited(s, 0) :
        /\ At(s, i) = c
        /\ \A j \in Visited(s, 0) : At(s, j) = c => j <= i

\* C16: the keys of the option map are the characters the left-to-right
\* scan of the optstring reads, a character followed by ':' being recorded
\* as taking an argument and the ':' skipped; a character read more than
\* once has the flag of its last occurrence ("a:a": flag, "aa:": argument).
C16_OptionSpecConstruction ==
    /\ DOMAIN opts = {At(optstring, i) : i \in Visited(optstring, 0)}
    /\ \A c \in DOMAIN opts :
          opts[c] = Marked(optstring, LastVisit(optstring, c))
    /\ optstring = <<"a", ":", "a">> => opts = [c \in {"a"} |-> FALSE]
    /\ optstring = <<"a", "a", ":">> => opts = [c \in {"a"} |-> TRUE]

C16_Witness ==
    /\ optstring = <<"a", ":", "a">>
    /\ opts["a"] = FALSE
    /\ last.op = "next" /\ last.ret = Opt("a", << >>)

\* C17: ':' is never a key of the option map, the keys are exactly the
\* characters of the optstring other than ':', and a dispatched ':' yields
\* UnknownOption(':').
C17_DelimiterNeverKey ==
    /\ ":" \notin DOMAIN opts
    /\ DOMAIN opts = {optstring[k] : k \in 1..Len(optstring)} \ {":"}
    /\ (Dispatches /\ DispChar = ":") => last.ret = UnknownOption(":")

\* C18: set_index(v) leaves index = v and point = 0, also when called in
\* the middle of a bundle, and the results of the calls of next() after it
\* are those of the option characters from position v on, whatever the
\* state it was called in.
C18_SetIndexRestartsScan ==
    /\ last.op = "set_index" => (index = last.index /\ point = 0)
    /\ ~last.fresh =>
          /\ IsPrefix(outs, OutcomesFrom(last.start))
          /\ done => outs = OutcomesFrom(last.start)

C18_Witness ==
    /\ last.op = "set_index" /\ last.point > 0
    /\ index = last.index /\ point = 0
    /\ index < Len(args) /\ IsBundle(At(args, index))

\* C19: after new() index is 1 and point is 0, whatever the vector; for a
\* vector of at most one element the first next() returns None with index
\* still 1; the scan started by new() never has its cursor at args[0], so
\* ["-a"] and ["-a","x"] yield no option.
C19_NewStartsAtOne ==
    /\ last.op = "new" => (index = 1 /\ point = 0)
    /\ (last.fresh /\ last.op = "next") => last.index >= 1
    /\ (FirstNone /\ Len(args) <= 1) => (index = 1 /\ outs = <<None>>)
    /\ (/\ last.fresh /\ last.op = "next"
        /\ args \in {<<<<"-", "a">>>>, <<<<"-", "a">>, <<"x">>>>})
          => (last.ret = None /\ index = 1)

C19_Witness ==
    /\ FirstNone
    /\ args = <<<<"-", "a">>, <<"x">>>> /\ "a" \in DOMAIN opts
    /\ index = 1

\* the character c between single quotes
Quoted(c) == <<"'", c, "'">>

\* C20: an UnknownOption error renders as "unknown option -- 'X'" and a
\* MissingArgument error as "option requires an argument -- 'X'", X being
\* the culprit; ["x","-b"] with "a" gives "unknown option -- 'b'" and
\* ["x","-a"] with "a:" gives "option requires an argument -- 'a'".
C20_ErrorRendering ==
    /\ (last.op = "next" /\ last.ret.tag = "UnknownOption") =>
          to_string(last.ret) = <<"unknown option -- ">> \o Quoted(DispChar)
    /\ (last.op = "next" /\ last.ret.tag = "MissingArgument") =>
          to_string(last.ret) =
              <<"option requires an argument -- ">> \o Quoted(DispChar)
    /\ (/\ args = <<<<"x">>, <<"-", "b">>>> /\ optstring = <<"a">>
        /\ last.fresh /\ Len(outs) >= 1) =>
          to_string(outs[1]) = <<"unknown option -- ", "'", "b", "'">>
    /\ (/\ args = <<<<"x">>, <<"-", "a">>>> /\ optstring = <<"a", ":">>
        /\ last.fresh /\ Len(outs) >= 1) =>
          to_string(outs[1]) = <<"option requires an argument -- ", "'", "a", "'">>

C20_Witness ==
    /\ args = <<<<"x">>, <<"-", "b">>>> /\ optstring = <<"a">>
    /\ last.op = "next" /\ last.ret = UnknownOption("b")

\* C21: a next() that dispatches a character which is not the last of its
\* token and is unknown or takes no argument leaves index at that token
\* and point at the offset of the following character; a dispatching
\* next() changes index exactly when the character is the last of its
\* token or takes an argument ("-abc" with "ab:c": index is 1 after 'a'
\* and 2 after 'b').
C21_IndexLeavesFinishedToken ==
    /\ Dispatches =>
          /\ (~DispLast /\ ~TakesArg) =>
                (index = last.index /\ point = DispPoint + 1)
          /\ (index # last.index) <=> (DispLast \/ TakesArg)
    /\ (/\ args = <<<<"x">>, <<"-", "a", "b", "c">>, <<"f", "o", "o">>>>
        /\ optstring = <<"a", "b", ":", "c">>
        /\ last.fresh /\ last.op = "next" /\ ~last.done) =>
          /\ Len(outs) = 1 => (last.ret = Opt("a", << >>) /\ index = 1)
          /\ Len(outs) = 2 => (last.ret = Opt("b", <<<<"c">>>>) /\ index = 2)

C21_Witness ==
    /\ args = <<<<"x">>, <<"-", "a", "b", "c">>, <<"f", "o", "o">>>>
    /\ optstring = <<"a", "b", ":", "c">>
    /\ last.fresh /\ last.op = "next" /\ Len(outs) = 1
    /\ index = 1 /\ point = 2

\* C22: no call of next(), set_index or incr_index changes the exploded
\* argument vector or the option map built by new(); set_index and
\* incr_index change index and point only.
C22_OnlyCursorMutable ==
    [][/\ args' = args /\ opts' = opts /\ optstring' = optstring
       /\ opts' = new(optstring')]_vars

C22_Witness ==
    /\ last.op = "next" /\ ~last.fresh
    /\ Dispatches /\ TakesArg /\ ~DispLast
    /\ last.ret = Opt(DispChar, <<split_off(Tok, DispPoint + 1)>>)
    /\ Tok = At(args, last.index)
    /\ opts = new(optstring)

\* the last call was next() at the start of a token that begins with "--"
\* and has more than two characters
AtLongDash ==
    /\ AtBoundary
    /\ last.index < Len(args)
    /\ Len(Tok) > 2 /\ Tok[1] = "-" /\ Tok[2] = "-"

\* C23 as stated: the first next() on a token that starts with "--" and is
\* longer than two characters yields UnknownOption('-') when '-' is not in
\* the spec and the option '-' when it is, and the scan continues with the
\* following characters of the same token.
C23_LongDashContinues ==
    AtLongDash =>
        /\ "-" \notin DOMAIN opts => last.ret = UnknownOption("-")
        /\ "-" \in DOMAIN opts => (last.ret.tag = "Opt" /\ last.ret.c = "-")
        /\ index = last.index /\ point = 2

\* C23, amended: the first next() on a token that starts with "--" and is
\* longer than two characters dispatches its second '-': it yields
\* UnknownOption('-') when '-' is not in the spec and Opt('-', None) when
\* '-' is a flag, and the scan continues at offset 2 of the same token;
\* when '-' takes an argument it yields Opt('-', Some(rest of the token))
\* and index moves to the next token.
C23_LongDashIsBundle ==
    AtLongDash =>
        /\ "-" \notin DOMAIN opts =>
              (last.ret = UnknownOption("-") /\ index = last.index /\ point = 2)
        /\ ("-" \in DOMAIN opts /\ ~opts["-"]) =>
              (last.ret = Opt("-", << >>) /\ index = last.index /\ point = 2)
        /\ ("-" \in DOMAIN opts /\ opts["-"]) =>
              /\ last.ret = Opt("-", <<SubSeq(Tok, 3, Len(Tok))>>)
              /\ index = last.index + 1 /\ point = 0

C23_Witness ==
    /\ AtLongDash
    /\ Tok = <<"-", "-", "a">>
    /\ last.ret = UnknownOption("-")
    /\ index = last.index /\ point = 2

(***************************************************************************)
(* A second parser, built by new() with the same optstring over the vector *)
(* v: one call of next() with the cursor at cur.                           *)
(***************************************************************************)
StepOn(v, cur) ==
    LET i == cur.index
        leave == Cursor(i + 1, 0)
    IN  IF /\ cur.point = 0
           /\ \/ i >= Len(v)
              \/ Len(At(v, i)) = 0
              \/ At(At(v, i), 0) # "-"
              \/ Len(At(v, i)) = 1
        THEN [cur |-> cur, ret |-> None]
        ELSE IF cur.point = 0 /\ At(At(v, i), 1) = "-" /\ Len(At(v, i)) = 2
        THEN [cur |-> leave, ret |-> None]
        ELSE LET tok == At(v, i)
                 p0 == IF cur.point = 0 THEN 1 ELSE cur.point
                 opt == At(tok, p0)
                 p1 == p0 + 1
                 stay == IF p1 >= Len(tok) THEN leave ELSE Cursor(i, p1)
             IN  IF opt \notin DOMAIN opts
                 THEN [cur |-> stay, ret |-> UnknownOption(opt)]
                 ELSE IF ~opts[opt]
                 THEN [cur |-> stay, ret |-> Opt(opt, << >>)]
                 ELSE IF p1 < Len(tok)
                 THEN [cur |-> leave, ret |-> Opt(opt, <<split_off(tok, p1)>>)]
                 ELSE IF i + 1 >= Len(v)
                 THEN [cur |-> leave, ret |-> MissingArgument(opt)]
                 ELSE [cur |-> Cursor(i + 2, 0),
                       ret |-> Opt(opt, <<At(v, i + 1)>>)]

\* args[n..]
Suffix(n) == SubSeq(args, n + 1, Len(args))

\* C24: a parser positioned at k >= 1 by set_index(k) after new(args, s)
\* and a parser built by new(args[k-1..], s) give the same outcome at
\* every call of next(), and the index of the first is always the index of
\* the second plus k-1 (the points are equal).
C24_PositionIndependent ==
    LET k == last.start
        w == Suffix(k - 1)
    IN  k >= 1 =>
          /\ last.op # "next" => (index = 1 + (k - 1) /\ point = 0)
          /\ last.op = "next" =>
                LET r == StepOn(w, Cursor(last.index - (k - 1), last.point))
                IN  /\ last.ret = r.ret
                    /\ index = r.cur.index + (k - 1)
                    /\ point = r.cur.point

C24_Witness ==
    /\ ~last.fresh /\ last.start >= 2
    /\ last.op = "next" /\ ~last.done
    /\ Len(outs) >= 2
    /\ outs[1].tag = "Opt"

====
